---- MODULE Spec2Model ----
(***************************************************************************)
(* Human-in-the-loop investment approval workflow                          *)
(* (src/human_in_loop/main_invest_approval.py).                            *)
(*                                                                         *)
(* The turn manager's three handlers and the caller loop of main() are     *)
(* translated from the source.  The step engine, the request/response      *)
(* broker, the agent node and the request-info node belong to the          *)
(* agent_framework package, which the source only imports: they are        *)
(* modelled from sections 4.3, 4.4 and 6 of the specification.             *)
(*                                                                         *)
(* Text is a sequence of one-character strings, so that strip(), lower(),  *)
(* upper(), startswith() and slicing are computed, not assumed.            *)
(***************************************************************************)
EXTENDS Integers, Sequences, FiniteSets, TLC

\* ------------------------------------------------------------------ bounds
\* longest free tail appended to a reply word
MaxTail == 3
\* most start/resume invocations of one execution of main()
MaxCalls == 3

\* ------------------------------------------------------- program constants
\* reply[6:] and len(reply) > 6
RefineLen == 6

\* ------------------------------------------------------------ text helpers
LowerChars == <<"a","b","c","d","e","f","g","h","i","j","k","l","m",
                "n","o","p","q","r","s","t","u","v","w","x","y","z">>
UpperChars == <<"A","B","C","D","E","F","G","H","I","J","K","L","M",
                "N","O","P","Q","R","S","T","U","V","W","X","Y","Z">>
Whitespace == {" ", "\t", "\n"}

SetMin(S) == CHOOSE x \in S : \A y \in S : x <= y
SetMax(S) == CHOOSE x \in S : \A y \in S : x >= y

\* one character of str.lower()
ToLower(c) ==
    IF \E i \in 1..Len(UpperChars) : UpperChars[i] = c
    THEN LowerChars[CHOOSE i \in 1..Len(UpperChars) : UpperChars[i] = c]
    ELSE c

\* one character of str.upper()
ToUpper(c) ==
    IF \E i \in 1..Len(LowerChars) : LowerChars[i] = c
    THEN UpperChars[CHOOSE i \in 1..Len(LowerChars) : LowerChars[i] = c]
    ELSE c

\* str.lower()
Lower(s) == IF Len(s) = 0 THEN <<>> ELSE [i \in 1..Len(s) |-> ToLower(s[i])]

\* str.upper()
Upper(s) == IF Len(s) = 0 THEN <<>> ELSE [i \in 1..Len(s) |-> ToUpper(s[i])]

\* str.strip(): drop leading and trailing whitespace
Strip(s) ==
    LET keep == {i \in 1..Len(s) : s[i] \notin Whitespace}
    IN  IF keep = {} THEN <<>> ELSE SubSeq(s, SetMin(keep), SetMax(keep))

\* str.startswith(p)
StartsWith(s, p) == Len(s) >= Len(p) /\ SubSeq(s, 1, Len(p)) = p

\* s[n:]
SliceFrom(s, n) == IF Len(s) <= n THEN <<>> ELSE SubSeq(s, n + 1, Len(s))

\* the string literals of the source
APPROVE == <<"a","p","p","r","o","v","e">>
REFINE == <<"r","e","f","i","n","e">>
EXIT == <<"e","x","i","t">>
PROVIDE_MORE_DETAILS ==
    <<"p","r","o","v","i","d","e"," ","m","o","r","e"," ",
      "d","e","t","a","i","l","s">>

\* ------------------------------------------------- what the actor may type
TailChars == {" ", "y", "Y"}
Tails == UNION {[1..n -> TailChars] : n \in 0..MaxTail}
Pads == {<<>>, <<" ">>}
Words == {APPROVE,
          <<"A","p","p","r","o","v","e">>,
          REFINE,
          <<"R","E","F","I","N","E">>,
          EXIT,
          <<"E","x","i","t">>,
          <<"m","a","y","b","e">>,
          <<>>}
\* every line the external actor can type at "Your decision: "
Replies == {l \o w \o t : l \in Pads, w \in Words, t \in Tails}

\* every line the external actor can type at the ticker prompt
TickerInputs == {<<>>, <<" ">>, <<"a">>, <<" ", "m", " ">>, <<"A">>}

\* ------------------------------------------------ the agent's answer text
\* A JSON value of the answer: a string or a number.
Str(v) == [t |-> "str", v |-> v]
Num(v) == [t |-> "num", v |-> v]
BUY == <<"B","U","Y">>
HOLD == <<"H","O","L","D">>
HIGH == <<"H","I","G","H">>
WHY == <<"w","h","y">>
\* tickers the model client may name in its answer
AgentTickers == {<<"A">>, <<"M">>}
\* the fields InvestmentRecommendation requires, all of type str
RequiredFields == {"ticker", "action", "rationale", "confidence"}

\* a JSON object with the four fields
Recommendation(tk, act) ==
    [form |-> "object",
     obj |-> [k \in RequiredFields |->
                CASE k = "ticker" -> Str(tk)
                  [] k = "action" -> Str(act)
                  [] k = "rationale" -> Str(WHY)
                  [] OTHER -> Str(HIGH)]]
\* a JSON object without "confidence"
MissingField ==
    [form |-> "object",
     obj |-> [k \in RequiredFields \ {"confidence"} |->
                IF k = "ticker" THEN Str(<<"A">>) ELSE Str(HOLD)]]
\* a JSON object whose "action" is a number
WrongType ==
    [form |-> "object",
     obj |-> [k \in RequiredFields |->
                IF k = "action" THEN Num(<<"1">>) ELSE Str(<<"A">>)]]
\* text that is not JSON
Prose == [form |-> "prose", obj |-> <<>>]
\* the empty string
EmptyText == [form |-> "empty", obj |-> <<>>]
\* agent_run_response.text is None
NoneText == [form |-> "none", obj |-> <<>>]

\* every text the model client may answer with
AgentTexts ==
    {Recommendation(tk, act) : tk \in AgentTickers, act \in {BUY, HOLD}}
    \cup {MissingField, WrongType, Prose, EmptyText, NoneText}

\* InvestmentRecommendation.model_validate_json(text) does not raise
Parses(text) ==
    /\ text.form = "object"
    /\ \A k \in RequiredFields : k \in DOMAIN text.obj /\ text.obj[k].t = "str"

\* the validated InvestmentRecommendation
model_validate_json(text) == [k \in RequiredFields |-> text.obj[k].v]

\* ------------------------------------------------------------ the messages
\* AgentExecutorRequest(messages=[ChatMessage(Role.USER, text)], should_respond=True)
AgentExecutorRequest(template, arg) ==
    [type |-> "AgentExecutorRequest", template |-> template, arg |-> arg]

\* AgentExecutorResponse carrying agent_run_response.text
AgentExecutorResponse(text) == [type |-> "AgentExecutorResponse", text |-> text]

\* InvestmentApprovalRequest(prompt, recommendation, ticker)
InvestmentApprovalRequest(prompt, recommendation, tk) ==
    [type |-> "InvestmentApprovalRequest", prompt |-> prompt,
     recommendation |-> recommendation, ticker |-> tk]

\* RequestResponse(data, original_request, request_id)
RequestResponse(data, original_request, request_id) ==
    [type |-> "RequestResponse", data |-> data,
     original_request |-> original_request, request_id |-> request_id]

\* the initial input handed to the start node
StartMessage(tk) == [type |-> "str", ticker |-> tk]

\* what one handler invocation does through its context: the messages it
\* sends, the outputs it yields, and whether it ends by raising
Emission(sent, yielded) == [sent |-> sent, yielded |-> yielded, raised |-> FALSE]

\* --------------------------------------------------- InvestmentTurnManager
\* start(ticker, ctx)
start(tk) == Emission(<<AgentExecutorRequest("analyze", tk)>>, <<>>)

\* the prompt of the try branch
RecommendationPrompt(rec) ==
    [header |-> "INVESTMENT RECOMMENDATION",
     fields |-> <<rec["ticker"], rec["action"], rec["confidence"], rec["rationale"]>>,
     raw |-> <<>>,
     help |-> "Type one of: approve - / refine <feedback> - / exit -"]

\* the prompt of the except branch
FallbackPrompt(text) ==
    [header |-> "INVESTMENT ANALYSIS",
     fields |-> <<>>,
     raw |-> <<text>>,
     help |-> "Type one of: approve, refine <feedback>, or exit"]

\* result.agent_run_response.text or ""
TextOrEmpty(text) == IF text.form = "none" THEN EmptyText ELSE text

\* on_agent_response without its try/except: a text that does not validate
\* makes the handler raise
on_agent_response_unguarded(result) ==
    LET text == TextOrEmpty(result.text)
    IN  IF Parses(text)
        THEN LET recommendation == model_validate_json(text)
             IN  Emission(<<InvestmentApprovalRequest(
                               RecommendationPrompt(recommendation),
                               text, recommendation["ticker"])>>, <<>>)
        ELSE [sent |-> <<>>, yielded |-> <<>>, raised |-> TRUE]

\* on_agent_response whose fallback request is sent after the try block as
\* well, not only in the except branch
on_agent_response_twice(result) ==
    LET text == TextOrEmpty(result.text)
    IN  IF Parses(text)
        THEN LET recommendation == model_validate_json(text)
             IN  Emission(<<InvestmentApprovalRequest(
                               RecommendationPrompt(recommendation),
                               text, recommendation["ticker"]),
                            InvestmentApprovalRequest(
                               FallbackPrompt(text), text, <<>>)>>, <<>>)
        ELSE Emission(<<InvestmentApprovalRequest(
                           FallbackPrompt(text), text, <<>>)>>, <<>>)

\* on_agent_response(result, ctx)
on_agent_response(result) ==
    LET text == TextOrEmpty(result.text)
    IN  IF Parses(text)
        THEN LET recommendation == model_validate_json(text)
             IN  Emission(<<InvestmentApprovalRequest(
                               RecommendationPrompt(recommendation),
                               text, recommendation["ticker"])>>, <<>>)
        ELSE Emission(<<InvestmentApprovalRequest(
                           FallbackPrompt(text), text, <<>>)>>, <<>>)

\* the approval text without the ticker of the original request
ApprovedText_blank(tk) ==
    [head |-> "Investment recommendation for", ticker |-> <<>>,
     tail |-> "approved and ready for execution."]

\* the text yielded on approval
ApprovedText(tk) ==
    [head |-> "Investment recommendation for", ticker |-> tk,
     tail |-> "approved and ready for execution."]

\* RefinementFeedback without the strip() of the slice
RefinementFeedback_unstripped(reply) ==
    IF Len(reply) > RefineLen
    THEN SliceFrom(reply, RefineLen)
    ELSE PROVIDE_MORE_DETAILS

\* reply[6:].strip() if len(reply) > 6 else "provide more details"
RefinementFeedback(reply) ==
    IF Len(reply) > RefineLen
    THEN Strip(SliceFrom(reply, RefineLen))
    ELSE PROVIDE_MORE_DETAILS

\* on_human_feedback without the return of the approve branch
on_human_feedback_no_return(feedback) ==
    LET reply == Lower(Strip(feedback.data))
        tk == feedback.original_request.ticker
    IN  IF reply = APPROVE
        THEN Emission(<<AgentExecutorRequest("valid_json", <<>>)>>, <<ApprovedText(tk)>>)
        ELSE IF StartsWith(reply, REFINE)
        THEN Emission(<<AgentExecutorRequest("refine", RefinementFeedback(reply))>>, <<>>)
        ELSE Emission(<<AgentExecutorRequest("valid_json", <<>>)>>, <<>>)

\* on_human_feedback approving every reply that begins with "approve"
on_human_feedback_prefix(feedback) ==
    LET reply == Lower(Strip(feedback.data))
        tk == feedback.original_request.ticker
    IN  IF StartsWith(reply, APPROVE)
        THEN Emission(<<>>, <<ApprovedText(tk)>>)
        ELSE IF StartsWith(reply, REFINE)
        THEN Emission(<<AgentExecutorRequest("refine", RefinementFeedback(reply))>>, <<>>)
        ELSE Emission(<<AgentExecutorRequest("valid_json", <<>>)>>, <<>>)

\* on_human_feedback without its else branch: invalid input is dropped
on_human_feedback_ignore_invalid(feedback) ==
    LET reply == Lower(Strip(feedback.data))
        tk == feedback.original_request.ticker
    IN  IF reply = APPROVE
        THEN Emission(<<>>, <<ApprovedText(tk)>>)
        ELSE IF StartsWith(reply, REFINE)
        THEN Emission(<<AgentExecutorRequest("refine", RefinementFeedback(reply))>>, <<>>)
        ELSE Emission(<<>>, <<>>)

\* on_human_feedback(feedback, ctx)
on_human_feedback(feedback) ==
    LET reply == Lower(Strip(feedback.data))
        tk == feedback.original_request.ticker
    IN  IF reply = APPROVE
        THEN Emission(<<>>, <<ApprovedText(tk)>>)
        ELSE IF StartsWith(reply, REFINE)
        THEN Emission(<<AgentExecutorRequest("refine", RefinementFeedback(reply))>>, <<>>)
        ELSE Emission(<<AgentExecutorRequest("valid_json", <<>>)>>, <<>>)

\* ------------------------------------------------------------------- state
VARIABLES
    pc,                 \* position of main()
    ticker,             \* main: ticker
    workflow_built,     \* main: the workflow has been built
    pending_responses,  \* main: pending_responses
    completed,          \* main: completed
    workflow_output,    \* main: workflow_output
    events,             \* main: events of the last invocation
    requests,           \* main: requests
    responses,          \* main: responses, while the answers are collected
    req_index,          \* main: position of the for loop over requests
    queue,              \* runner: messages awaiting delivery
    stream,             \* runner: events produced by the running invocation
    broker,             \* broker: the unresolved Pending Requests
    next_id,            \* broker: next request id
    run_state,          \* runner: Run State
    calls,              \* history: number of start/resume invocations made
    call,               \* history: the invocation in progress and its argument
    issued,             \* history: every request id issued, in order
    fb,                 \* history: on_human_feedback's input and effect in the
                        \*          invocation in progress
    submitted,          \* history: the request ids handed to resume so far
    agent_text,         \* history: the text the agent node answered with in the
                        \*          invocation in progress
    typed               \* history: the line read by the latest input() of the
                        \*          for loop, until the next invocation is made

vars == <<pc, ticker, workflow_built, pending_responses, completed,
          workflow_output, events, requests, responses, req_index,
          queue, stream, broker, next_id, run_state,
          calls, call, issued, submitted, fb, agent_text, typed>>

mainVars == <<ticker, workflow_built, pending_responses, completed,
              workflow_output, events, requests, responses, req_index>>
histVars == <<calls, call, issued, submitted, fb, agent_text, typed>>

\* Python's None, and a value that is not None
None == [none |-> TRUE]
Some(v) == [none |-> FALSE, v |-> v]

\* a dict is a sequence of <<key, value>> pairs in insertion order
DictKeys(d) == {d[i][1] : i \in 1..Len(d)}
DictValues(d) == {d[i][2] : i \in 1..Len(d)}
\* d[k] = v
DictSet(d, k, v) ==
    IF k \in DictKeys(d)
    THEN [i \in 1..Len(d) |-> IF d[i][1] = k THEN <<k, v>> ELSE d[i]]
    ELSE Append(d, <<k, v>>)

\* "if pending_responses": neither None nor an empty dict
Truthy(pr) == ~pr.none /\ Len(pr.v) > 0

\* the event kinds of the stream
RequestInfoEvent(request_id, data) ==
    [kind |-> "RequestInfoEvent", request_id |-> request_id, data |-> data]
WorkflowStatusEvent(state) == [kind |-> "WorkflowStatusEvent", state |-> state]
WorkflowOutputEvent(data) == [kind |-> "WorkflowOutputEvent", data |-> data]
ExecutorFailedEvent(node) == [kind |-> "ExecutorFailedEvent", node |-> node]

EventsOfKind(evs, k) == {i \in 1..Len(evs) : evs[i].kind = k}

\* no invocation is in progress
NoCall == [kind |-> "none", responses |-> <<>>]

Init ==
    /\ pc = "input_ticker"
    /\ ticker = <<>>
    /\ workflow_built = FALSE
    /\ pending_responses = None
    /\ completed = FALSE
    /\ workflow_output = None
    /\ events = <<>>
    /\ requests = <<>>
    /\ responses = <<>>
    /\ req_index = 1
    /\ queue = <<>>
    /\ stream = <<>>
    /\ broker = {}
    /\ next_id = 1
    /\ run_state = "IDLE"
    /\ calls = 0
    /\ call = NoCall
    /\ issued = <<>>
    /\ submitted = {}
    /\ fb = None
    /\ agent_text = None
    /\ typed = None

\* ------------------------------------------------- the graph built by main
turn_manager == "investment_turn_manager"
agent_exec == "investment_agent"
request_info_executor == "request_info"
Nodes == <<turn_manager, agent_exec, request_info_executor>>

\* the add_edge calls of the WorkflowBuilder
Edges == {<<turn_manager, agent_exec>>, <<agent_exec, turn_manager>>,
          <<turn_manager, request_info_executor>>,
          <<request_info_executor, turn_manager>>}

\* the message types each node has a handler for
Accepts(node) ==
    CASE node = turn_manager -> {"str", "AgentExecutorResponse", "RequestResponse"}
      [] node = agent_exec -> {"AgentExecutorRequest"}
      [] node = request_info_executor -> {"InvestmentApprovalRequest"}

\* a message in flight from one node to another
Delivery(from, to, msg) == [from |-> from, to |-> to, msg |-> msg]

\* the deliveries of one message sent by node from: one copy per edge whose
\* destination accepts the message's type
RouteOne(from, msg, i) ==
    IF <<from, Nodes[i]>> \in Edges /\ msg.type \in Accepts(Nodes[i])
    THEN <<Delivery(from, Nodes[i], msg)>>
    ELSE <<>>
RouteMessage(from, msg) ==
    RouteOne(from, msg, 1) \o RouteOne(from, msg, 2) \o RouteOne(from, msg, 3)

RECURSIVE Route(_, _)
\* the deliveries of all messages sent by one handler invocation, in order
Route(from, msgs) ==
    IF msgs = <<>> THEN <<>>
    ELSE RouteMessage(from, Head(msgs)) \o Route(from, Tail(msgs))

RECURSIVE OutputEvents(_)
\* one WorkflowOutputEvent per yielded output
OutputEvents(yielded) ==
    IF yielded = <<>> THEN <<>>
    ELSE <<WorkflowOutputEvent(Head(yielded))>> \o OutputEvents(Tail(yielded))

\* ------------------------------------------------------------- the broker
\* a broker that numbers a request by the count of unresolved requests
FreshId_reused(unresolved, counter) == Cardinality(unresolved) + 1

\* the id of the next request: a counter scoped to the run
FreshId(unresolved, counter) == counter

\* register(origin, payload): the entry stored under a fresh id
Register(id, origin, payload) == [id |-> id, origin |-> origin, payload |-> payload]

\* the unresolved request with this id
Lookup(id) == CHOOSE r \in broker : r.id = id

Known(id) == \E r \in broker : r.id = id

RECURSIVE Resolve(_)
\* resolve(id, answer) for every entry of the response mapping: one
\* synthetic response message each, routed to the request's origin
Resolve(items) ==
    IF items = <<>> THEN <<>>
    ELSE LET id == Head(items)[1]
             answer == Head(items)[2]
             r == Lookup(id)
         IN  <<Delivery(request_info_executor, r.origin,
                        RequestResponse(answer, r.payload, id))>>
             \o Resolve(Tail(items))

\* --------------------------------------------------------------- the runner
OutputProduced == EventsOfKind(stream, "WorkflowOutputEvent") # {}

\* the run is executing supersteps and may dispatch the next message
Dispatching == pc = "streaming" /\ queue # <<>> /\ ~OutputProduced

\* the Run State while supersteps execute
Executing(unresolved) ==
    IF unresolved = {} THEN "RUNNING" ELSE "IN_PROGRESS_PENDING_REQUESTS"

\* the stream after the Run State became st
WithStatus(evs, old, st) ==
    IF old = st THEN evs ELSE Append(evs, WorkflowStatusEvent(st))

\* the effect of one handler invocation of node on the runner
Collect(node, em) ==
    /\ queue' = Tail(queue) \o (IF em.raised THEN <<>> ELSE Route(node, em.sent))
    /\ stream' = stream \o (IF em.raised THEN <<ExecutorFailedEvent(node)>>
                             ELSE OutputEvents(em.yielded))

\* the Run State at the end of an invocation
FinalRunState(evs, unresolved) ==
    IF EventsOfKind(evs, "WorkflowOutputEvent") # {} THEN "COMPLETED"
    ELSE IF unresolved # {} THEN "IDLE_WITH_PENDING_REQUESTS"
    ELSE "IDLE"

\* ------------------------------------------------------------------ main()
\* the ticker read without strip()
ReadTicker_unstripped(raw) == Upper(raw)

\* input("Enter stock ticker ...").strip().upper()
ReadTicker(raw) == Upper(Strip(raw))

\* ticker = input(...).strip().upper(); return if empty, else build the
\* agent and the workflow
InputTicker ==
    /\ pc = "input_ticker"
    /\ \E raw \in TickerInputs :
         /\ ticker' = ReadTicker(raw)
         /\ IF ticker' = <<>>
            THEN /\ pc' = "no_ticker"
                 /\ workflow_built' = FALSE
            ELSE /\ pc' = "loop_head"
                 /\ workflow_built' = TRUE
    /\ UNCHANGED <<pending_responses, completed, workflow_output, events,
                   requests, responses, req_index, queue, stream, broker,
                   next_id, run_state>>
    /\ UNCHANGED histVars

\* workflow.run_stream(ticker): seed the start node with the initial input
run_stream ==
    /\ queue' = <<Delivery("caller", turn_manager, StartMessage(ticker))>>
    /\ broker' = broker
    /\ run_state' = Executing(broker)
    /\ stream' = WithStatus(<<>>, run_state, run_state')
    /\ call' = [kind |-> "start", responses |-> <<>>]
    /\ submitted' = submitted
    /\ pc' = "streaming"

\* resume(responses): resolve every entry, or fail with UnknownRequestId
\* when a key is not an unresolved request
resume(items) ==
    IF \A k \in DictKeys(items) : Known(k)
    THEN /\ queue' = Resolve(items)
         /\ broker' = {r \in broker : r.id \notin DictKeys(items)}
         /\ run_state' = Executing(broker')
         /\ stream' = WithStatus(<<>>, run_state, run_state')
         /\ pc' = "streaming"
    ELSE /\ pc' = "UnknownRequestId"
         /\ UNCHANGED <<queue, broker, run_state, stream>>

\* workflow.send_responses_streaming(pending_responses)
send_responses_streaming ==
    LET items == pending_responses.v
    IN  /\ call' = [kind |-> "resume", responses |-> items]
        /\ submitted' = submitted \cup DictKeys(items)
        /\ resume(items)

\* while not completed: start the run, or resume it with the answers
Invoke ==
    /\ pc = "loop_head"
    /\ ~completed
    /\ calls < MaxCalls
    /\ calls' = calls + 1
    /\ IF Truthy(pending_responses) THEN send_responses_streaming ELSE run_stream
    /\ typed' = None
    /\ UNCHANGED <<next_id, issued, fb, agent_text>>
    /\ UNCHANGED mainVars

\* the start node receives the initial input
TurnManagerStart ==
    /\ Dispatching
    /\ Head(queue).to = turn_manager
    /\ Head(queue).msg.type = "str"
    /\ Collect(turn_manager, start(Head(queue).msg.ticker))
    /\ UNCHANGED <<pc, broker, next_id, run_state>>
    /\ UNCHANGED mainVars
    /\ UNCHANGED histVars

\* the agent node answers a request with the model client's text
AgentRun ==
    /\ Dispatching
    /\ Head(queue).to = agent_exec
    /\ \E text \in AgentTexts :
         /\ Collect(agent_exec, Emission(<<AgentExecutorResponse(text)>>, <<>>))
         /\ agent_text' = Some(text)
    /\ UNCHANGED <<pc, broker, next_id, run_state, calls, call, issued,
                   submitted, fb, typed>>
    /\ UNCHANGED mainVars

\* the turn manager receives the agent's answer
TurnManagerOnAgentResponse ==
    /\ Dispatching
    /\ Head(queue).to = turn_manager
    /\ Head(queue).msg.type = "AgentExecutorResponse"
    /\ Collect(turn_manager, on_agent_response(Head(queue).msg))
    /\ UNCHANGED <<pc, broker, next_id, run_state>>
    /\ UNCHANGED mainVars
    /\ UNCHANGED histVars

\* the request-info node registers a Pending Request and surfaces it
RequestInfoRun ==
    /\ Dispatching
    /\ Head(queue).to = request_info_executor
    /\ LET id == FreshId(broker, next_id)
       IN  /\ broker' = broker \cup {Register(id, Head(queue).from, Head(queue).msg)}
           /\ issued' = Append(issued, id)
           /\ stream' = WithStatus(Append(stream, RequestInfoEvent(id, Head(queue).msg)),
                                   run_state, Executing(broker'))
    /\ next_id' = next_id + 1
    /\ queue' = Tail(queue)
    /\ run_state' = Executing(broker')
    /\ UNCHANGED <<pc, calls, call, submitted, fb, agent_text, typed>>
    /\ UNCHANGED mainVars

\* the turn manager receives the external actor's answer
TurnManagerOnHumanFeedback ==
    /\ Dispatching
    /\ Head(queue).to = turn_manager
    /\ Head(queue).msg.type = "RequestResponse"
    /\ \E em \in {on_human_feedback(Head(queue).msg)} :
         /\ Collect(turn_manager, em)
         /\ fb' = Some([data |-> Head(queue).msg.data,
                        request_id |-> Head(queue).msg.request_id,
                        effect |-> em])
    /\ UNCHANGED <<pc, broker, next_id, run_state, calls, call, issued,
                   submitted, agent_text, typed>>
    /\ UNCHANGED mainVars

\* the delivery queue is empty, or an Output stopped the run: the
\* invocation ends and the final Run State is reported
EndInvocation ==
    /\ pc = "streaming"
    /\ queue = <<>> \/ OutputProduced
    /\ run_state' = FinalRunState(stream, broker)
    /\ stream' = WithStatus(stream, run_state, run_state')
    /\ queue' = <<>>
    /\ pc' = "events_ready"
    /\ UNCHANGED <<broker, next_id>>
    /\ UNCHANGED mainVars
    /\ UNCHANGED histVars

RECURSIVE ApprovalRequests(_)
\* requests: (request_id, prompt) of every RequestInfoEvent that carries an
\* InvestmentApprovalRequest, in stream order
ApprovalRequests(evs) ==
    IF evs = <<>> THEN <<>>
    ELSE (IF Head(evs).kind = "RequestInfoEvent"
             /\ Head(evs).data.type = "InvestmentApprovalRequest"
          THEN <<<<Head(evs).request_id, Head(evs).data.prompt>>>>
          ELSE <<>>) \o ApprovalRequests(Tail(evs))

\* workflow_output after the for loop over events: the last output, if any
LastOutput(evs, before) ==
    LET outs == EventsOfKind(evs, "WorkflowOutputEvent")
    IN  IF outs = {} THEN before ELSE Some(evs[SetMax(outs)].data)

\* completed never set by the scan of the events
CompletedAfter_never(evs, before) == before

\* completed set by any event of the stream, not only by an output event
CompletedAfter_any_event(evs, before) == before \/ evs # <<>>

\* completed after the for loop over events
CompletedAfter(evs, before) ==
    before \/ EventsOfKind(evs, "WorkflowOutputEvent") # {}

\* the dict of answers is not emptied before a batch is collected
FreshResponses_kept(old) == old

\* responses: dict[str, str] = {}
FreshResponses(old) == <<>>

\* events = [...]; pending_responses = None; scan the events; then decide
\* whether to collect human responses
ProcessEvents ==
    /\ pc = "events_ready"
    /\ events' = stream
    /\ pending_responses' = None
    /\ requests' = ApprovalRequests(stream)
    /\ workflow_output' = LastOutput(stream, workflow_output)
    /\ completed' = CompletedAfter(stream, completed)
    /\ responses' = FreshResponses(responses)
    /\ req_index' = 1
    /\ pc' = IF requests' # <<>> /\ ~completed' THEN "collect" ELSE "loop_head"
    /\ call' = NoCall
    /\ fb' = None
    /\ agent_text' = None
    /\ UNCHANGED <<ticker, workflow_built, queue, stream, broker, next_id, run_state,
                   calls, issued, submitted, typed>>

\* the answer read without lower()
ReadAnswer_no_lower(raw) == Strip(raw)

\* answer = input("Your decision: ").strip().lower()
ReadAnswer(raw) == Lower(Strip(raw))

\* the cancellation test of the caller loop
IsExit(answer) == answer = EXIT

\* one iteration of the for loop over requests, the actor typing raw
AnswerWith(raw) ==
    /\ pc = "collect"
    /\ LET answer == ReadAnswer(raw)
           req_id == requests[req_index][1]
       IN  /\ typed' = Some(raw)
           /\ IF IsExit(answer)
              THEN /\ pc' = "cancelled"
                   /\ UNCHANGED <<responses, req_index, pending_responses>>
              ELSE /\ responses' = DictSet(responses, req_id, answer)
                   /\ IF req_index = Len(requests)
                      THEN /\ pending_responses' = Some(responses')
                           /\ pc' = "loop_head"
                           /\ req_index' = req_index
                      ELSE /\ req_index' = req_index + 1
                           /\ pc' = "collect"
                           /\ UNCHANGED pending_responses
    /\ UNCHANGED <<ticker, workflow_built, completed, workflow_output, events,
                   requests, queue, stream, broker, next_id, run_state,
                   calls, call, issued, submitted, fb, agent_text>>

\* one iteration of the for loop over requests
Answer == \E raw \in Replies : AnswerWith(raw)

\* the loop ends with completed set: display the final result
DisplayResult ==
    /\ pc = "loop_head"
    /\ completed
    /\ pc' = "done"
    /\ UNCHANGED <<queue, stream, broker, next_id, run_state>>
    /\ UNCHANGED mainVars
    /\ UNCHANGED histVars

Next ==
    \/ InputTicker
    \/ Invoke
    \/ TurnManagerStart
    \/ AgentRun
    \/ TurnManagerOnAgentResponse
    \/ RequestInfoRun
    \/ TurnManagerOnHumanFeedback
    \/ EndInvocation
    \/ ProcessEvents
    \/ Answer
    \/ DisplayResult

Spec == Init /\ [][Next]_vars

\* A caller of the runner resolves, while the run is suspended, a request id
\* that an earlier resume already resolved.
ResolveAgain ==
    /\ pc = "collect"
    /\ \E id \in submitted :
         LET items == <<<<id, APPROVE>>>>
         IN  /\ call' = [kind |-> "resolve_again", responses |-> items]
             /\ resume(items)
    /\ UNCHANGED <<next_id, calls, issued, submitted, fb, agent_text, typed>>
    /\ UNCHANGED mainVars

NextBroker == Next \/ ResolveAgain

\* the workflow, with a caller that may resolve a request id twice
SpecBroker == Init /\ [][NextBroker]_vars

\* a handler invocation that ends by raising: nothing is sent or yielded
Failure == [sent |-> <<>>, yielded |-> <<>>, raised |-> TRUE]

\* The model client fails with a provider error while the agent node handles
\* a request.  Nothing in main() or in the turn manager receives the error:
\* the agent node's handler ends by raising, which the runner surfaces as a
\* local error event.
AgentFail ==
    /\ Dispatching
    /\ Head(queue).to = agent_exec
    /\ Collect(agent_exec, Failure)
    /\ UNCHANGED <<pc, broker, next_id, run_state>>
    /\ UNCHANGED mainVars
    /\ UNCHANGED histVars

NextProvider == Next \/ AgentFail

\* the workflow, with a model client that may fail
SpecProvider == Init /\ [][NextProvider]_vars

TypeOK ==
    /\ pc \in {"input_ticker", "no_ticker", "loop_head", "streaming",
               "events_ready", "collect", "cancelled", "done", "UnknownRequestId"}
    /\ completed \in BOOLEAN
    /\ calls \in 0..MaxCalls
    /\ run_state \in {"IDLE", "RUNNING", "IN_PROGRESS_PENDING_REQUESTS",
                      "IDLE_WITH_PENDING_REQUESTS", "COMPLETED"}

\* the actor's reply ends the conversation: "approve" or "exit"
Decisive(raw) == ReadAnswer(raw) \in {APPROVE, EXIT}

\* the lines the actor types where only the kind of reply matters
LiveReplies == {w \o t : w \in Words, t \in {<<>>, <<" ", "y">>}}

\* one iteration of the for loop over requests, the actor deciding at the
\* latest before the last invocation the bound allows
AnswerLive ==
    /\ pc = "collect"
    /\ \E raw \in LiveReplies :
         /\ calls >= MaxCalls - 1 => Decisive(raw)
         /\ AnswerWith(raw)

NextLive ==
    \/ InputTicker
    \/ Invoke
    \/ TurnManagerStart
    \/ AgentRun
    \/ TurnManagerOnAgentResponse
    \/ RequestInfoRun
    \/ TurnManagerOnHumanFeedback
    \/ EndInvocation
    \/ ProcessEvents
    \/ AnswerLive
    \/ DisplayResult

\* main() runs on; the agent node answers every request; the actor answers
\* every prompt and eventually decides
LiveSpec == Init /\ [][NextLive]_vars /\ WF_vars(NextLive)

\* ---------------------------------------------------------------- properties
\* the reply on_human_feedback acted on in this invocation, trimmed and in
\* lower case
FeedbackReply == Lower(Strip(fb.v.data))

\* the RequestInfoEvents and WorkflowOutputEvents of the invocation in progress
StreamRequests == EventsOfKind(stream, "RequestInfoEvent")
StreamOutputs == EventsOfKind(stream, "WorkflowOutputEvent")
UnresolvedIds == {r.id : r \in broker}

\* the reply is "refine", whitespace, and then text
RefineWithText(reply) ==
    /\ Len(reply) > Len(REFINE)
    /\ SubSeq(reply, 1, Len(REFINE)) = REFINE
    /\ reply[Len(REFINE) + 1] \in Whitespace

\* arg is what follows "refine" and the whitespace after it
TrailingText(reply, arg) ==
    \E g \in 1..(Len(reply) - Len(REFINE)) :
        /\ \A i \in 1..g : reply[Len(REFINE) + i] \in Whitespace
        /\ arg = SubSeq(reply, Len(REFINE) + g + 1, Len(reply))
        /\ arg # <<>>
        /\ arg[1] \notin Whitespace

\* The turn coordination state of section 4.5, read off what is outstanding.
TypesInFlight == {queue[i].msg.type : i \in 1..Len(queue)}
TurnState ==
    CASE completed \/ StreamOutputs # {} -> "COMPLETED"
      [] calls = 0 \/ "str" \in TypesInFlight -> "AWAIT_START"
      [] TypesInFlight \cap {"AgentExecutorRequest", "AgentExecutorResponse"} # {}
           -> "AWAIT_AGENT_RESULT"
      [] broker # {}
         \/ TypesInFlight \cap {"InvestmentApprovalRequest", "RequestResponse"} # {}
           -> "AWAIT_HUMAN_DECISION"
      [] OTHER -> "NONE"

ApproveHandled == ~fb.none /\ FeedbackReply = APPROVE

C1_State ==
    ApproveHandled =>
        /\ Len(fb.v.effect.yielded) = 1
        /\ fb.v.effect.sent = <<>>
        /\ ~fb.v.effect.raised
        /\ Cardinality(StreamOutputs) = 1
        /\ StreamRequests = {}
        /\ queue = <<>>
        /\ broker = {}
        /\ pc \in {"streaming", "events_ready"}
        /\ pc = "events_ready" => run_state = "COMPLETED"
C1_Step ==
    /\ (pc = "events_ready" /\ ApproveHandled) =>
          (completed' /\ ~workflow_output'.none /\ pc' = "loop_head")
    /\ (pc = "loop_head" /\ completed) => pc' = "done"
\* C1: when on_human_feedback receives a reply that is "approve" after
\* trimming and lowercasing, it yields exactly one Output and sends nothing:
\* the invocation's stream holds one output event and no request-info event,
\* no message or Pending Request is left, the run ends COMPLETED, and the
\* caller loop then sets completed and leaves its loop.
C1_ApproveCompletes == []C1_State /\ [][C1_Step]_vars
C1_Witness == ApproveHandled /\ pc = "events_ready" /\ run_state = "COMPLETED"

RefineHandled == ~fb.none /\ RefineWithText(FeedbackReply)

\* C2: for a reply "refine <text>", on_human_feedback sends exactly one
\* refinement request carrying <text> (what follows "refine", trimmed) and
\* yields no Output; when the invocation ends, exactly one new
\* RequestInfoEvent was issued, under an id other than the one resolved.
C2_RefineCarriesText ==
    RefineHandled =>
        /\ Len(fb.v.effect.sent) = 1
        /\ fb.v.effect.sent[1].type = "AgentExecutorRequest"
        /\ fb.v.effect.sent[1].template = "refine"
        /\ TrailingText(FeedbackReply, fb.v.effect.sent[1].arg)
        /\ fb.v.effect.yielded = <<>>
        /\ StreamOutputs = {}
        /\ pc = "events_ready" =>
              /\ Cardinality(StreamRequests) = 1
              /\ \A i \in StreamRequests :
                    /\ stream[i].request_id # fb.v.request_id
                    /\ stream[i].request_id \in UnresolvedIds
C2_Witness ==
    /\ RefineHandled
    /\ pc = "events_ready"
    /\ Len(fb.v.effect.sent[1].arg) > 1
    /\ StreamRequests # {}

\* the reply is neither "approve" nor a refine reply
InvalidHandled ==
    /\ ~fb.none
    /\ FeedbackReply # APPROVE
    /\ FeedbackReply # REFINE
    /\ ~RefineWithText(FeedbackReply)

C3_State ==
    InvalidHandled =>
        /\ StreamOutputs = {}
        /\ fb.v.effect.yielded = <<>>
        /\ TurnState # "COMPLETED"
        /\ pc = "events_ready" =>
              /\ TurnState = "AWAIT_HUMAN_DECISION"
              /\ run_state = "IDLE_WITH_PENDING_REQUESTS"
              /\ Cardinality(StreamRequests) = 1
              /\ \A i \in StreamRequests :
                    /\ stream[i].request_id # fb.v.request_id
                    /\ stream[i].request_id \in UnresolvedIds
C3_Step ==
    (pc = "events_ready" /\ InvalidHandled) => (pc' = "collect" /\ ~completed')
\* C3: for a reply that is neither "approve" nor a refine reply, the resume
\* invocation produces no Output; when it ends, a new RequestInfoEvent has
\* been issued, the turn coordination state is AWAIT_HUMAN_DECISION, and the
\* caller loop is again waiting for a human decision.
C3_InvalidReprompts == []C3_State /\ [][C3_Step]_vars
C3_Witness ==
    /\ InvalidHandled
    /\ FeedbackReply = <<"m","a","y","b","e">>
    /\ pc = "events_ready"
    /\ StreamRequests # {}

\* the texts of AgentTexts that are not a structured recommendation
MalformedTexts == {MissingField, WrongType, Prose, EmptyText, NoneText}
MalformedAnswered == ~agent_text.none /\ agent_text.v \in MalformedTexts

\* C4: when the agent's text is not a structured recommendation, the
\* invocation still ends with exactly one Pending Request whose prompt holds
\* the raw text and whose ticker is empty, no failure is raised, and the Run
\* State is IDLE_WITH_PENDING_REQUESTS.
C4_MalformedDegrades ==
    (MalformedAnswered /\ pc = "events_ready") =>
        /\ Cardinality(StreamRequests) = 1
        /\ \A i \in StreamRequests :
              /\ stream[i].data.prompt.raw =
                    <<IF agent_text.v = NoneText THEN EmptyText ELSE agent_text.v>>
              /\ stream[i].data.prompt.fields = <<>>
              /\ stream[i].data.ticker = <<>>
              /\ stream[i].request_id \in UnresolvedIds
        /\ EventsOfKind(stream, "ExecutorFailedEvent") = {}
        /\ run_state = "IDLE_WITH_PENDING_REQUESTS"
C4_Witness ==
    /\ MalformedAnswered
    /\ agent_text.v = Prose
    /\ pc = "events_ready"
    /\ StreamRequests # {}

\* the branch on_human_feedback took
TookApprove == fb.v.effect.yielded # <<>>
TookRefine ==
    \E i \in 1..Len(fb.v.effect.sent) : fb.v.effect.sent[i].template = "refine"
TookInvalid ==
    /\ fb.v.effect.yielded = <<>>
    /\ Len(fb.v.effect.sent) = 1
    /\ fb.v.effect.sent[1].template = "valid_json"

\* the line typed last is "exit" after trimming and lowercasing
TypedExit == ~typed.none /\ Lower(Strip(typed.v)) = EXIT

\* C5: a reply is accepted as a command only if, trimmed and in lower case,
\* it is exactly "approve", exactly "exit", or "refine" alone or followed by
\* whitespace and free text; every other reply is re-prompted as invalid
\* input, never handled as approve or refine.
C5_OnlyExactCommands ==
    /\ pc = "cancelled" => TypedExit
    /\ ~fb.none =>
          /\ TookApprove => FeedbackReply = APPROVE
          /\ TookRefine => (FeedbackReply = REFINE \/ RefineWithText(FeedbackReply))
          /\ InvalidHandled => TookInvalid

C6_State ==
    /\ \A v \in DictValues(call.responses) : Lower(Strip(v)) # EXIT
    /\ ~pending_responses.none =>
          \A v \in DictValues(pending_responses.v) : Lower(Strip(v)) # EXIT
    /\ \A i \in 1..Len(queue) :
          queue[i].msg.type = "RequestResponse" =>
              Lower(Strip(queue[i].msg.data)) # EXIT
    /\ ~fb.none => FeedbackReply # EXIT
    /\ TypedExit => (pc = "cancelled" /\ pending_responses.none)
C6_Step == TypedExit => (calls' = calls /\ call' = call /\ queue' = queue)
\* C6: "exit" is never delivered into the graph: no response mapping handed
\* to send_responses_streaming holds the answer "exit", no response message
\* carries it, and once "exit" is typed no start or resume invocation is made.
C6_ExitNotDelivered == []C6_State /\ [][C6_Step]_vars
C6_Witness == TypedExit /\ typed.v # EXIT /\ pc = "cancelled" /\ calls >= 2

C7_State ==
    /\ TypedExit => pc = "cancelled"
    /\ pc = "cancelled" =>
          /\ ~completed
          /\ workflow_output.none
          /\ EventsOfKind(events, "WorkflowOutputEvent") = {}
    /\ pc = "done" =>
          /\ completed
          /\ ~workflow_output.none
          /\ EventsOfKind(events, "WorkflowOutputEvent") # {}
C7_Step ==
    /\ pc = "cancelled" => pc' = "cancelled"
    /\ pc = "done" => pc' = "done"
\* C7: an "exit" answer ends the caller loop in the cancelled end state, with
\* completed false and no workflow output; the completed end state is reached
\* only with an OutputEvent observed; neither end state is ever left for the
\* other.
C7_AbortDistinct == []C7_State /\ [][C7_Step]_vars
C7_Witness == pc = "cancelled" /\ TypedExit /\ Len(issued) >= 2

\* an OutputEvent has been produced for the run, or observed by the loop
OutputSeen ==
    \/ completed
    \/ StreamOutputs # {}
    \/ EventsOfKind(events, "WorkflowOutputEvent") # {}

C8_State ==
    /\ OutputSeen => pc \in {"streaming", "events_ready", "loop_head", "done"}
    /\ completed => (pc \in {"loop_head", "done"} /\ pending_responses.none)
C8_Step ==
    OutputSeen =>
        /\ calls' = calls
        /\ issued' = issued
        /\ Cardinality(EventsOfKind(stream', "WorkflowOutputEvent"))
              = Cardinality(StreamOutputs)
        /\ EventsOfKind(stream', "RequestInfoEvent") = StreamRequests
        /\ queue' = <<>>
\* C8: once an OutputEvent has been produced for the run, no start or resume
\* invocation is made any more, no further request-info or output event is
\* produced, and the caller loop collects no further answers.
C8_TerminationMonotone == []C8_State /\ [][C8_Step]_vars
C8_Witness == pc = "done" /\ calls >= 2 /\ Len(issued) >= 2

\* C9: at most one Pending Request is unresolved at a time.
C9_OneOutstanding == Cardinality(broker) <= 1
C9_Witness == Cardinality(broker) = 1 /\ Len(issued) >= 2 /\ pc = "collect"

\* C10: the request ids issued in one run are pairwise distinct, across
\* invocations as well.
C10_UniqueIds ==
    \A i, j \in 1..Len(issued) : i # j => issued[i] # issued[j]
C10_Witness == Len(issued) >= 3 /\ calls >= 3

C11_State ==
    /\ \A id \in submitted : ~Known(id)
    /\ pc = "UnknownRequestId" => call.kind = "resolve_again"
C11_Step ==
    /\ call'.kind = "resolve_again" =>
          /\ pc' = "UnknownRequestId"
          /\ broker' = broker
          /\ queue' = queue
          /\ stream' = stream
    /\ (call'.kind = "resume" /\ call.kind # "resume") =>
          /\ DictKeys(call'.responses) \cap submitted = {}
          /\ DictKeys(call'.responses) # {}
          /\ pc' = "streaming"
\* C11: resolving a request id a second time fails with UnknownRequestId,
\* leaves the broker's mapping unchanged and produces no response message;
\* the caller loop never hands to resume an id it handed to an earlier resume.
C11_AtMostOnceResolution == []C11_State /\ [][C11_Step]_vars
C11_Witness ==
    /\ pc = "UnknownRequestId"
    /\ call.kind = "resolve_again"
    /\ Cardinality(broker) = 1
    /\ Cardinality(submitted) >= 1

\* the agent node failed in the invocation in progress
AgentFailed ==
    \E i \in EventsOfKind(stream, "ExecutorFailedEvent") : stream[i].node = agent_exec

C12_State ==
    /\ pc # "UnknownRequestId"
    /\ (AgentFailed /\ pc = "events_ready") =>
          /\ Cardinality(StreamRequests) = 1
          /\ \A i \in StreamRequests :
                /\ stream[i].data.prompt.header = "INVESTMENT ANALYSIS"
                /\ stream[i].request_id \in UnresolvedIds
          /\ run_state = "IDLE_WITH_PENDING_REQUESTS"
C12_Step == (AgentFailed /\ pc = "events_ready") => pc' = "collect"
\* C12: when the model client fails while the agent node handles a request,
\* the run does not crash: the invocation still ends with a degraded Pending
\* Request issued to the external actor, and the caller loop goes on to
\* prompt for it.
C12_ProviderErrorDegrades == []C12_State /\ [][C12_Step]_vars

\* the request ids main collected from the preceding invocation
SurfacedIds == {requests[i][1] : i \in 1..Len(requests)}

\* C14: run_stream is invoked exactly once, as the first invocation; every
\* later invocation is send_responses_streaming with exactly the request ids
\* surfaced by the preceding invocation; the loop never starts the run a
\* second time, even after an invocation that surfaced neither an approval
\* request nor an output.
C14_StartOnceThenResume ==
    /\ call.kind = "start" => calls = 1
    /\ call.kind = "resume" =>
          /\ calls >= 2
          /\ DictKeys(call.responses) = SurfacedIds
          /\ SurfacedIds # {}
    /\ (pc = "streaming" /\ calls >= 2) => call.kind = "resume"

\* the RequestInfoEvents of the preceding invocation that surfaced the request
\* on_human_feedback has just been answered for
AnsweredEvents ==
    {i \in EventsOfKind(events, "RequestInfoEvent") :
        events[i].request_id = fb.v.request_id}

\* the human approved a request that carries a structured recommendation
RecommendationApproved ==
    /\ ApproveHandled
    /\ \E i \in AnsweredEvents : events[i].data.recommendation.form = "object"
    /\ \A i \in AnsweredEvents :
          \A k \in RequiredFields :
              /\ k \in DOMAIN events[i].data.recommendation.obj
              /\ events[i].data.recommendation.obj[k].t = "str"

\* exactly one output event in the run, and the prompt answered shows the
\* recommendation's ticker and action
C13_OneOutputAndPrompt ==
    /\ Cardinality(StreamOutputs) = 1
    /\ EventsOfKind(events, "WorkflowOutputEvent") = {}
    /\ workflow_output.none
    /\ \A o \in StreamOutputs :
          stream[o].data.tail = "approved and ready for execution."
    /\ \A i \in AnsweredEvents :
          /\ Len(events[i].data.prompt.fields) >= 2
          /\ events[i].data.prompt.fields[1]
                = events[i].data.recommendation.obj["ticker"].v
          /\ events[i].data.prompt.fields[2]
                = events[i].data.recommendation.obj["action"].v

\* C13 as stated: when the agent returned a recommendation and the human
\* approves, exactly one output event is produced in the run, its text holds
\* the subject ticker the run was started with and the word "approved", and
\* the prompt answered shows the recommendation's ticker and action.
C13_OutputNamesSubject ==
    RecommendationApproved =>
        /\ C13_OneOutputAndPrompt
        /\ \A o \in StreamOutputs : stream[o].data.ticker = ticker

\* C13 amended: the text holds the ticker named in the approved
\* recommendation, which is the subject ticker only when the agent's
\* recommendation names it.
C13_OutputNamesRecommendation ==
    RecommendationApproved =>
        /\ C13_OneOutputAndPrompt
        /\ \A o \in StreamOutputs :
              \A i \in AnsweredEvents :
                  stream[o].data.ticker
                     = events[i].data.recommendation.obj["ticker"].v
C13_Witness ==
    /\ RecommendationApproved
    /\ pc = "events_ready"
    /\ \E o \in StreamOutputs : stream[o].data.ticker # ticker
    /\ calls >= 3

\* an invocation is in progress or has just ended, its events not yet read
InvocationOpen == pc \in {"streaming", "events_ready"}

\* C15: an output event is produced only in a resume invocation whose
\* response batch contained the reply "approve", and only by the handling of
\* that reply; the start invocation, a refine reply, an invalid reply and an
\* agent result produce none.
C15_ApprovalGate ==
    /\ (InvocationOpen /\ StreamOutputs # {}) =>
          /\ call.kind = "resume"
          /\ APPROVE \in DictValues(call.responses)
          /\ ApproveHandled
          /\ agent_text.none
    /\ (InvocationOpen /\ call.kind = "start") => StreamOutputs = {}
    /\ (InvocationOpen /\ ~fb.none /\ FeedbackReply # APPROVE) => StreamOutputs = {}
    /\ (InvocationOpen /\ ~agent_text.none) => StreamOutputs = {}
C15_Witness ==
    /\ pc = "events_ready"
    /\ StreamOutputs # {}
    /\ call.kind = "resume"
    /\ APPROVE \in DictValues(call.responses)

\* the conditions of the four turn coordination states
TurnConditions ==
    {st \in {"AWAIT_START", "AWAIT_AGENT_RESULT", "AWAIT_HUMAN_DECISION", "COMPLETED"} :
        CASE st = "COMPLETED" -> completed \/ StreamOutputs # {}
          [] st = "AWAIT_START" -> calls = 0 \/ "str" \in TypesInFlight
          [] st = "AWAIT_AGENT_RESULT" ->
                TypesInFlight \cap {"AgentExecutorRequest", "AgentExecutorResponse"} # {}
          [] OTHER ->
                \/ broker # {}
                \/ TypesInFlight \cap {"InvestmentApprovalRequest", "RequestResponse"} # {}}

\* the transitions of the turn coordination table
TurnTransitions ==
    {<<"AWAIT_START", "AWAIT_AGENT_RESULT">>,
     <<"AWAIT_AGENT_RESULT", "AWAIT_HUMAN_DECISION">>,
     <<"AWAIT_HUMAN_DECISION", "AWAIT_AGENT_RESULT">>,
     <<"AWAIT_HUMAN_DECISION", "COMPLETED">>,
     <<"AWAIT_HUMAN_DECISION", "AWAIT_HUMAN_DECISION">>}

C16_State ==
    /\ TurnConditions = {TurnState}
    /\ TypesInFlight \cap {"AgentExecutorRequest", "AgentExecutorResponse"} # {}
          => broker = {}
    /\ TurnState = "COMPLETED" => queue = <<>>
C16_Step ==
    /\ TurnState' # TurnState => <<TurnState, TurnState'>> \in TurnTransitions
    /\ TurnState = "COMPLETED" =>
          /\ queue' = <<>>
          /\ EventsOfKind(stream', "RequestInfoEvent") = StreamRequests
          /\ EventsOfKind(stream', "WorkflowOutputEvent") = StreamOutputs

\* C16: the turn coordination is always in exactly one of AWAIT_START,
\* AWAIT_AGENT_RESULT, AWAIT_HUMAN_DECISION and COMPLETED and changes state
\* only along the transitions of the table; a request to the agent is never
\* outstanding together with an unresolved Pending Request, and nothing is
\* emitted after COMPLETED.
C16_TurnAlternation == []C16_State /\ [][C16_Step]_vars
C16_Witness ==
    /\ TurnState = "COMPLETED"
    /\ pc = "done"
    /\ calls >= 3

\* main() has returned
Terminated == pc \in {"done", "cancelled", "no_ticker"}

C17_State ==
    /\ pc = "done" => ~workflow_output.none /\ completed
    /\ (pc = "events_ready" /\ call.kind = "resume" /\ StreamOutputs = {}) =>
          /\ StreamRequests # {}
          /\ \A i \in StreamRequests :
                /\ stream[i].request_id \in UnresolvedIds
                /\ stream[i].request_id \notin submitted
    /\ (pc = "loop_head" /\ ~completed /\ calls > 0) => Truthy(pending_responses)

\* C17: when the agent answers every request and the actor eventually answers
\* "approve" or "exit", main() eventually returns, having observed an output
\* in the approve case; after a refine or invalid reply the resume ends with
\* a fresh unresolved request, never with nothing to answer.
C17_LoopTerminates == <>Terminated /\ []C17_State
C17_Witness ==
    /\ pc = "done"
    /\ calls >= 3
    /\ ~workflow_output.none

\* the last Run State reported on the event stream of the invocation
LastStatus ==
    LET sts == EventsOfKind(stream, "WorkflowStatusEvent")
    IN  IF sts = {} THEN None ELSE Some(stream[SetMax(sts)].state)

\* C18: when a start or resume invocation ends, the Run State is COMPLETED if
\* the invocation produced an output, otherwise IDLE_WITH_PENDING_REQUESTS if
\* a Pending Request is unresolved, otherwise IDLE; and no invocation of a
\* started run ends in IDLE.
C18_RunStateAtEnd ==
    pc = "events_ready" =>
        /\ run_state = (IF StreamOutputs # {} THEN "COMPLETED"
                        ELSE IF UnresolvedIds # {} THEN "IDLE_WITH_PENDING_REQUESTS"
                        ELSE "IDLE")
        /\ LastStatus = Some(run_state)
        /\ run_state # "IDLE"
        /\ StreamOutputs # {} \/ UnresolvedIds # {}

C19_State ==
    /\ (pc # "input_ticker" /\ Strip(ticker) = <<>>) => pc = "no_ticker"
    /\ pc = "no_ticker" =>
          /\ ~workflow_built
          /\ calls = 0
          /\ call = NoCall
          /\ issued = <<>>
          /\ broker = {}
          /\ queue = <<>>
          /\ stream = <<>>
          /\ events = <<>>
          /\ workflow_output.none
          /\ ~completed
C19_Step == pc = "no_ticker" => UNCHANGED vars

\* C19: when the ticker typed at startup is empty after trimming, main()
\* returns without building or starting a run: no start or resume invocation
\* is made, and no Pending Request and no output is produced.
C19_EmptyTickerStops == []C19_State /\ [][C19_Step]_vars
C19_Witness ==
    /\ pc = "no_ticker"
    /\ ticker = <<>>
    /\ ~workflow_built

====
